---- MODULE Spec2Model ----
(***************************************************************************)
(* Model of usde-optimization-engine/backend/server.py: the YieldOptimizer *)
(* object (protocol registry, Sharpe objective, optimize_portfolio) and    *)
(* the four request handlers optimize, get_protocols, rebalance and        *)
(* get_risk_metrics, each request served in its own thread.                *)
(*                                                                         *)
(* Fixed-point units (the source computes in binary floating point):       *)
(*   weights              hundredths             (One = 1.0)               *)
(*   returns              thousandths            (30 = 0.03)               *)
(*   risk factors         hundredths             (15 = 0.15)               *)
(*   base_apy             tenths of a percent    (125 = 12.5)              *)
(*   value, apy, amounts  hundredths of a percent (2500 = 25.0 %)          *)
(*   covariance entries   1/CovScale of a ten-thousandth                   *)
(*   Sharpe ratio         hundredths             (150 = 1.5)               *)
(*   risk score           tenths                 (32 = 3.2)                *)
(***************************************************************************)
EXTENDS Integers, Sequences, FiniteSets, TLC

VARIABLES
  protocols,  \* optimizer.protocols, the registry of the process-wide optimizer
  pc,         \* where each request thread stands in its handler
  req,        \* the request a thread is serving (or has served last)
  loc,        \* the locals of optimize_portfolio in that thread
  resp,       \* the response the thread returned
  fed,        \* whether the request's current_allocations were fed back
  ticket,     \* the request's serial number, in order of arrival
  served      \* the number of requests received so far

vars == <<protocols, pc, req, loc, resp, fed, ticket, served>>

\* The number of requests of one run.
MaxRequests == 2

\* Two request threads; a thread that has answered takes the next request.
Threads == {"t1", "t2"}

-----------------------------------------------------------------------------
(* Numbers of the source, in the units above. *)

One == 100
LowerBound == 5
RiskFreeRate == 30
DefaultSharpe == 150
PercentFactor == 100
TradeThreshold == 100
HistoryDays == 30
CovScale == 2

\* self.protocols: a dict, iterated in insertion order.
Registry ==
  << [name |-> "Strata Finance",   base_apy |-> 125, risk_factor |-> 15, tvl_capacity |-> 1000000],
     [name |-> "Terminal Finance", base_apy |-> 158, risk_factor |-> 25, tvl_capacity |-> 800000],
     [name |-> "Ethereal Finance", base_apy |-> 182, risk_factor |-> 35, tvl_capacity |-> 600000],
     [name |-> "USDe Staking",     base_apy |-> 85,  risk_factor |-> 5,  tvl_capacity |-> 2000000] >>

-----------------------------------------------------------------------------
(* Arithmetic helpers. *)

Abs(x) == IF x < 0 THEN -x ELSE x

RECURSIVE SumSeq(_)
SumSeq(s) == IF s = <<>> THEN 0 ELSE Head(s) + SumSeq(Tail(s))

\* np.dot(weights.T, np.dot(cov_matrix, weights))
QuadForm(w, m) ==
  SumSeq([i \in 1..Len(w) |-> w[i] * SumSeq([j \in 1..Len(w) |-> m[i][j] * w[j]])])

RECURSIVE IsqrtBetween(_, _, _)
IsqrtBetween(n, lo, hi) ==
  IF lo >= hi THEN lo
  ELSE LET mid == (lo + hi + 1) \div 2
       IN  IF mid * mid <= n THEN IsqrtBetween(n, mid, hi)
           ELSE IsqrtBetween(n, lo, mid - 1)

\* np.sqrt, rounded down to the unit.
Isqrt(n) == IsqrtBetween(n, 0, 46340)

\* format(x, '.2f'): x is q/d, rounded to the nearest unit, ties to even.
RoundHalfEven(q, d) ==
  LET f == q \div d
      r == q % d
  IN  IF 2 * r < d THEN f
      ELSE IF 2 * r > d THEN f + 1
      ELSE IF f % 2 = 0 THEN f ELSE f + 1

-----------------------------------------------------------------------------
(* YieldOptimizer *)

\* calculate_sharpe_ratio: (portfolio_return - risk_free_rate) / portfolio_volatility.
\* portfolio_return is in units of 1e-5, the variance in units of 5e-9, hence
\* the factor 10000 / 707 (707 = 100 * sqrt(50)) for a result in hundredths.
calculate_sharpe_ratio(weights, returns, cov_matrix, risk_free_rate) ==
  LET portfolio_return == SumSeq([i \in 1..Len(weights) |-> returns[i] * weights[i]])
      portfolio_volatility == Isqrt(QuadForm(weights, cov_matrix))
  IN  ((portfolio_return - risk_free_rate * One) * 10000) \div (portfolio_volatility * 707)

\* base_returns: base_apy / 100 for each protocol, in registry order.
BaseReturns(ps) == [i \in 1..Len(ps) |-> (ps[i].base_apy * 1000) \div (10 * 100)]

\* CurrentReturns drifting with a counter all requests share.
CurrentReturnsShared(ps, noise) ==
  [i \in 1..Len(ps) |-> ((ps[i].base_apy * 1000) \div (10 * 100)) + noise[i] + served]

\* current_returns = base_returns + np.random.normal(0, 0.02, n_assets)
CurrentReturns(ps, noise) == [i \in 1..Len(ps) |-> BaseReturns(ps)[i] + noise[i]]

RiskFactors(ps) == [i \in 1..Len(ps) |-> ps[i].risk_factor]

\* OuterHalf with the factor 2 in place of 0.5.
OuterDouble(r) == [i \in 1..Len(r) |-> [j \in 1..Len(r) |-> CovScale * r[i] * r[j] * 2]]

\* np.outer(risk_factors, risk_factors) * 0.5
OuterHalf(r) == [i \in 1..Len(r) |-> [j \in 1..Len(r) |-> (CovScale * r[i] * r[j]) \div 2]]

\* np.fill_diagonal(cov_matrix, risk_factors ** 2)
FillDiagonal(m, r) ==
  [i \in 1..Len(m) |-> [j \in 1..Len(m) |-> IF i = j THEN CovScale * r[i] * r[i] ELSE m[i][j]]]

CovMatrix(ps) == FillDiagonal(OuterHalf(RiskFactors(ps)), RiskFactors(ps))

\* The vault-type branches of optimize_portfolio.
MaxSingleAllocation(vault_type) ==
  IF vault_type = "Conservative" THEN 40
  ELSE IF vault_type = "Balanced" THEN 60
  ELSE 80

RiskTolerance(vault_type) ==
  IF vault_type = "Conservative" THEN 10
  ELSE IF vault_type = "Balanced" THEN 20
  ELSE 40

\* x0 and the fallback: np.array([1/n_assets] * n_assets)
EqualWeights(n) == [i \in 1..n |-> One \div n]

\* The constrained solver is a library call (scipy.optimize.minimize, SLSQP).
\* Nothing in server.py restricts what it returns, so it may report failure,
\* or success with any vector of SolverVectors; result.fun is the objective
\* at result.x.  On failure result.x is the last iterate, which the caller
\* never reads.
SolverVectors ==
  { <<10, 20, 30, 40>>, <<5, 5, 35, 55>>, <<4, 20, 36, 41>> }

LastIterate == <<10, 20, 30, 40>>

NegSharpe(x, current_returns, cov_matrix) ==
  -calculate_sharpe_ratio(x, current_returns, cov_matrix, RiskFreeRate)

Minimize(current_returns, cov_matrix, x0, bounds) ==
  { [success |-> FALSE, x |-> LastIterate,
     fun |-> NegSharpe(LastIterate, current_returns, cov_matrix)] }
  \cup
  { [success |-> TRUE, x |-> v, fun |-> NegSharpe(v, current_returns, cov_matrix)] :
      v \in {u \in SolverVectors : Len(u) = Len(x0)} }

\* np.random.normal(0, 0.02, n_assets): one draw per protocol.
NoiseVectors == { <<0, 0, 0, 0>>, <<20, -20, 10, -5>> }

\* optimize_portfolio up to the call of minimize: the market model and the
\* constraints of the vault type.
MarketState(ps, vault_type, noise) ==
  [ stage |-> "market",
    vault_type |-> vault_type,
    n_assets |-> Len(ps),
    noise |-> noise,
    current_returns |-> CurrentReturns(ps, noise),
    cov_matrix |-> CovMatrix(ps),
    risk_tolerance |-> RiskTolerance(vault_type),
    bounds |-> <<LowerBound, MaxSingleAllocation(vault_type)>> ]

\* if result.success: result.x else equal weights
OptimalWeights(result, n_assets) ==
  IF result.success THEN result.x ELSE EqualWeights(n_assets)

\* SharpeRatio without the default: the objective's value whatever the solver said.
SharpeRatioNoDefault(result) == -result.fun

\* 'sharpe_ratio': -result.fun if result.success else 1.5
SharpeRatio(result) ==
  IF result.success THEN -result.fun ELSE DefaultSharpe

\* f'{portfolio_apy:.2f}%' of np.sum(optimal_weights * current_returns * 100)
FormatApy(weights, returns) ==
  [ fmt |-> "%.2f%%",
    centi |-> RoundHalfEven(SumSeq([i \in 1..Len(weights) |-> weights[i] * returns[i]]), 10) ]

\* The allocations list: one entry per protocol, in registry order.
FormatAllocations(ps, weights, returns) ==
  [i \in 1..Len(ps) |->
     [ name |-> ps[i].name,
       value |-> weights[i] * PercentFactor,
       apy |-> returns[i] * 10 ]]

\* optimize_portfolio from the solver's result to the returned dict.
OptimizePortfolio(ps, m, result) ==
  LET optimal_weights == OptimalWeights(result, m.n_assets)
  IN  [ apy |-> FormatApy(optimal_weights, m.current_returns),
        allocations |-> FormatAllocations(ps, optimal_weights, m.current_returns),
        sharpe_ratio |-> SharpeRatio(result) ]

-----------------------------------------------------------------------------
(* Requests *)

VaultTypeStrings == {"Conservative", "Balanced", "Aggressive", "Degen"}

\* The 'type' query argument / the 'vault_type' key: absent, or a string.
NoSelector == [has |-> FALSE, type |-> ""]

SelectorInputs == {NoSelector} \cup {[has |-> TRUE, type |-> s] : s \in VaultTypeStrings}

\* request.args.get('type', 'Balanced') and data.get('vault_type', 'Balanced')
GetSelector(sel, default) == IF sel.has THEN sel.type ELSE default

\* One entry of current_allocations: a JSON object with a name and possibly a
\* 'value' (a number, or something that is no number), or no object at all.
Entry(name, v) == [kind |-> "dict", name |-> name, vkind |-> "num", value |-> v]
EntryNoValue(name) == [kind |-> "dict", name |-> name, vkind |-> "absent", value |-> 0]
EntryBadValue(name) == [kind |-> "dict", name |-> name, vkind |-> "other", value |-> 0]
EntryNoDict == [kind |-> "other", name |-> "", vkind |-> "absent", value |-> 0]

\* current_allocations payloads.  A single entry, named after the last protocol.
PriorSingle == << Entry("USDe Staking", 9000) >>

\* The weights 10/20/30/40 %, in registry order.
PriorOnTarget ==
  << Entry("Strata Finance", 1000), Entry("Terminal Finance", 2000),
     Entry("Ethereal Finance", 3000), Entry("USDe Staking", 4000) >>

\* 1.00 and 1.01 percentage points away from 10/20/30/40 %.
PriorNearTarget ==
  << Entry("Strata Finance", 900), Entry("Terminal Finance", 2101),
     Entry("Ethereal Finance", 2899), Entry("USDe Staking", 4100) >>

\* Names out of registry order, an entry without a value, and entries past
\* the length of the registry.
PriorReordered ==
  << EntryNoValue("USDe Staking"), Entry("Strata Finance", 2000),
     Entry("Terminal Finance", 3600), Entry("Ethereal Finance", 3949),
     Entry("Lido", 5000), EntryNoDict >>

\* An entry that is no object, and a value that is no number.
PriorNoDict == << Entry("Strata Finance", 1000), EntryNoDict >>

PriorBadValue ==
  << Entry("Strata Finance", 1000), Entry("Terminal Finance", 2000),
     EntryBadValue("Ethereal Finance") >>

NoBody == [json |-> "none", vault_type |-> NoSelector, ca |-> "absent", current_allocations |-> <<>>]

RebalanceBody(sel, ca, prior) ==
  [json |-> "object", vault_type |-> sel, ca |-> ca, current_allocations |-> prior]

Sel(s) == [has |-> TRUE, type |-> s]

\* The JSON body of a rebalance request: no JSON object at all, or an object
\* whose 'current_allocations' is absent, a list, or something else.
RebalanceBodies ==
  { [json |-> j, vault_type |-> NoSelector, ca |-> "absent", current_allocations |-> <<>>] :
      j \in {"invalid", "null"} }
  \cup
  { RebalanceBody(NoSelector, "absent", <<>>),
    RebalanceBody(NoSelector, "other", <<>>),
    RebalanceBody(Sel("Degen"), "list", <<>>),
    RebalanceBody(Sel("Conservative"), "list", PriorSingle),
    RebalanceBody(Sel("Conservative"), "list", PriorOnTarget),
    RebalanceBody(Sel("Balanced"), "list", PriorNearTarget),
    RebalanceBody(Sel("Aggressive"), "list", PriorReordered),
    RebalanceBody(Sel("Balanced"), "list", PriorNoDict),
    RebalanceBody(Sel("Aggressive"), "list", PriorBadValue) }

NoReq == [op |-> "none", args |-> NoSelector, body |-> NoBody]
NoLoc == [stage |-> "none"]
NoResp == [status |-> 0]

-----------------------------------------------------------------------------
(* rebalance: the loop over the new allocations *)

TradeOk(trades) == [ok |-> TRUE, trades |-> trades, error |-> ""]
TradeError(e) == [ok |-> FALSE, trades |-> <<>>, error |-> e]

\* WeightDiff with the operands exchanged.
WeightDiffReversed(allocation, current_weight) == current_weight - allocation.value

\* weight_diff = allocation['value'] - current_weight
WeightDiff(allocation, current_weight) == allocation.value - current_weight

\* Material with the threshold included.
MaterialInclusive(weight_diff) == Abs(weight_diff) >= TradeThreshold

\* if abs(weight_diff) > 1
Material(weight_diff) == Abs(weight_diff) > TradeThreshold

\* Trade with the signed difference as the amount.
TradeSigned(allocation, weight_diff) ==
  [ protocol |-> allocation.name,
    action |-> IF weight_diff > 0 THEN "increase" ELSE "decrease",
    amount_percent |-> weight_diff ]

\* One entry of trades_needed.
Trade(allocation, weight_diff) ==
  [ protocol |-> allocation.name,
    action |-> IF weight_diff > 0 THEN "increase" ELSE "decrease",
    amount_percent |-> Abs(weight_diff) ]

\* Inside with the index off by one: the last entry is never reached.
InsideButLast(current_allocations, i) == i < Len(current_allocations)

\* if i < len(current_allocations), for the i-th entry counted from 1
Inside(current_allocations, i) == i <= Len(current_allocations)

\* for i, allocation in enumerate(new_result['allocations']), from the i-th
\* allocation on.  len() of something that is no list, .get of an entry that
\* is no dict and the subtraction of a 'value' that is no number raise.
RECURSIVE TradeLoop(_, _, _, _)
TradeLoop(allocations, body, i, trades) ==
  IF i > Len(allocations) THEN TradeOk(trades)
  ELSE IF body.ca = "other" THEN TradeError("TypeError")
  ELSE
    LET current_allocations == IF body.ca = "list" THEN body.current_allocations ELSE <<>>
        inside == Inside(current_allocations, i)
    IN  IF inside /\ current_allocations[i].kind # "dict" THEN TradeError("AttributeError")
        ELSE IF inside /\ current_allocations[i].vkind = "other" THEN TradeError("TypeError")
        ELSE
          LET current_weight ==
                IF inside /\ current_allocations[i].vkind = "num"
                THEN current_allocations[i].value ELSE 0
              weight_diff == WeightDiff(allocations[i], current_weight)
          IN  TradeLoop(allocations, body, i + 1,
                        IF Material(weight_diff)
                        THEN Append(trades, Trade(allocations[i], weight_diff))
                        ELSE trades)

\* The except branches: jsonify({'error': str(e)}), 500
ErrorResponse(e) == [status |-> 500, error |-> e]

\* rebalance after optimize_portfolio returned new_result.
RebalanceResponse(new_result, body) ==
  LET loop == TradeLoop(new_result.allocations, body, 1, <<>>)
  IN  IF loop.ok
      THEN [ status |-> 200,
             new_allocations |-> new_result.allocations,
             trades_needed |-> loop.trades,
             expected_apy |-> new_result.apy ]
      ELSE ErrorResponse(loop.error)

\* optimize: the portfolio plus the generated history (30 days of mock data).
OptimizeResponse(result) ==
  [ status |-> 200,
    apy |-> result.apy,
    allocations |-> result.allocations,
    sharpe_ratio |-> result.sharpe_ratio,
    historical |-> HistoryDays ]

\* get_protocols
ProtocolsResponse(ps) ==
  [ status |-> 200,
    protocols |-> [i \in 1..Len(ps) |->
                     [ name |-> ps[i].name, base_apy |-> ps[i].base_apy,
                       risk_factor |-> ps[i].risk_factor,
                       tvl_capacity |-> ps[i].tvl_capacity ]] ]

\* RiskScore with the Aggressive score for the name 'Aggressive' only.
RiskScoreNamed(vault_type) ==
  IF vault_type = "Conservative" THEN 32
  ELSE IF vault_type = "Aggressive" THEN 81
  ELSE 58

\* The vault-type branches of get_risk_metrics.
RiskScore(vault_type) ==
  IF vault_type = "Conservative" THEN 32
  ELSE IF vault_type = "Balanced" THEN 58
  ELSE 81

RECURSIVE MaxSeq(_)
MaxSeq(s) == IF Len(s) = 1 THEN s[1]
             ELSE LET m == MaxSeq(Tail(s)) IN IF s[1] > m THEN s[1] ELSE m

RECURSIVE MinSeq(_)
MinSeq(s) == IF Len(s) = 1 THEN s[1]
             ELSE LET m == MinSeq(Tail(s)) IN IF s[1] < m THEN s[1] ELSE m

\* get_risk_metrics: avg_protocol_risk in ten-thousandths, the volatility
\* estimate f'{avg_risk * 100:.1f}%' in tenths of a percent.
RiskMetricsResponse(ps, vault_type) ==
  LET risk_factors == RiskFactors(ps)
      avg_risk == (SumSeq(risk_factors) * 100) \div Len(risk_factors)
  IN  [ status |-> 200,
        risk_score |-> RiskScore(vault_type),
        avg_protocol_risk |-> avg_risk,
        max_protocol_risk |-> MaxSeq(risk_factors),
        min_protocol_risk |-> MinSeq(risk_factors),
        volatility_estimate |-> [fmt |-> "%.1f%%", tenths |-> RoundHalfEven(avg_risk, 10)] ]

-----------------------------------------------------------------------------
(* The server *)

Init ==
  /\ protocols = Registry
  /\ pc = [t \in Threads |-> "idle"]
  /\ req = [t \in Threads |-> NoReq]
  /\ loc = [t \in Threads |-> NoLoc]
  /\ resp = [t \in Threads |-> NoResp]
  /\ fed = [t \in Threads |-> FALSE]
  /\ ticket = [t \in Threads |-> 0]
  /\ served = 0

Receive(t, r, isFed) ==
  /\ pc[t] \in {"idle", "done"}
  /\ served < MaxRequests
  /\ served' = served + 1
  /\ pc' = [pc EXCEPT ![t] = "received"]
  /\ req' = [req EXCEPT ![t] = r]
  /\ loc' = [loc EXCEPT ![t] = NoLoc]
  /\ resp' = [resp EXCEPT ![t] = NoResp]
  /\ fed' = [fed EXCEPT ![t] = isFed]
  /\ ticket' = [ticket EXCEPT ![t] = served + 1]
  /\ UNCHANGED protocols

\* GET /api/optimize
ReceiveOptimize(t) ==
  \E a \in SelectorInputs :
    Receive(t, [op |-> "optimize", args |-> a, body |-> NoBody], FALSE)

\* GET /api/protocols
ReceiveProtocols(t) ==
  Receive(t, [op |-> "protocols", args |-> NoSelector, body |-> NoBody], FALSE)

\* GET /api/risk-metrics
ReceiveRiskMetrics(t) ==
  \E a \in SelectorInputs :
    Receive(t, [op |-> "risk", args |-> a, body |-> NoBody], FALSE)

\* POST /api/rebalance
ReceiveRebalance(t) ==
  \E b \in RebalanceBodies :
    Receive(t, [op |-> "rebalance", args |-> NoSelector, body |-> b], FALSE)

\* A new_allocations entry sent back as a current_allocations entry; rebalance
\* reads its 'value' only.
AsPrior(allocation) == Entry(allocation.name, allocation.value)

\* POST /api/rebalance by a client that sends the new_allocations of an
\* earlier rebalance response back, with the vault type of that request.
ReceiveRebalanceFedBack(t) ==
  \E s \in Threads :
    /\ pc[s] = "done"
    /\ req[s].op = "rebalance"
    /\ resp[s].status = 200
    /\ Receive(t, [ op |-> "rebalance", args |-> NoSelector,
                    body |-> [ json |-> "object",
                               vault_type |-> req[s].body.vault_type,
                               ca |-> "list",
                               current_allocations |->
                                 [i \in 1..Len(resp[s].new_allocations) |->
                                    AsPrior(resp[s].new_allocations[i])] ] ],
               TRUE)

\* optimize_portfolio, lines 30-68: this request's draws and market state.
BeginPortfolio(t, vault_type) ==
  \E noise \in NoiseVectors :
    /\ loc' = [loc EXCEPT ![t] = MarketState(protocols, vault_type, noise)]
    /\ pc' = [pc EXCEPT ![t] = "solving"]
    /\ UNCHANGED <<protocols, req, resp, fed, ticket, served>>

\* optimize_portfolio, lines 70-95: the solver's result for this request.
SolverResults(t) ==
  Minimize(loc[t].current_returns, loc[t].cov_matrix,
           EqualWeights(loc[t].n_assets), loc[t].bounds)

Finish(t, result, response) ==
  /\ loc' = [loc EXCEPT ![t] = [loc[t] EXCEPT !.stage = "solved"] @@ [result |-> result]]
  /\ resp' = [resp EXCEPT ![t] = response]
  /\ pc' = [pc EXCEPT ![t] = "done"]
  /\ UNCHANGED <<protocols, req, fed, ticket, served>>

OptimizeBegin(t) ==
  /\ pc[t] = "received"
  /\ req[t].op = "optimize"
  /\ BeginPortfolio(t, GetSelector(req[t].args, "Balanced"))

OptimizeFinish(t) ==
  /\ pc[t] = "solving"
  /\ req[t].op = "optimize"
  /\ \E result \in SolverResults(t) :
       Finish(t, result, OptimizeResponse(OptimizePortfolio(protocols, loc[t], result)))

\* RebalanceRejects with a body that is no JSON object taken as an empty one.
RebalanceAcceptsAll(body) == FALSE

\* request.get_json() raises on a body that is no JSON; data.get raises when
\* the body is JSON but no object.
RebalanceRejects(body) == body.json # "object"

RebalanceBegin(t) ==
  /\ pc[t] = "received"
  /\ req[t].op = "rebalance"
  /\ IF RebalanceRejects(req[t].body)
     THEN /\ resp' = [resp EXCEPT ![t] =
                        ErrorResponse(IF req[t].body.json = "invalid"
                                      THEN "BadRequest" ELSE "AttributeError")]
          /\ pc' = [pc EXCEPT ![t] = "done"]
          /\ UNCHANGED <<protocols, req, loc, fed, ticket, served>>
     ELSE BeginPortfolio(t, GetSelector(req[t].body.vault_type, "Balanced"))

RebalanceFinish(t) ==
  /\ pc[t] = "solving"
  /\ req[t].op = "rebalance"
  /\ \E result \in SolverResults(t) :
       Finish(t, result,
              RebalanceResponse(OptimizePortfolio(protocols, loc[t], result), req[t].body))

GetProtocols(t) ==
  /\ pc[t] = "received"
  /\ req[t].op = "protocols"
  /\ resp' = [resp EXCEPT ![t] = ProtocolsResponse(protocols)]
  /\ pc' = [pc EXCEPT ![t] = "done"]
  /\ UNCHANGED <<protocols, req, loc, fed, ticket, served>>

GetRiskMetrics(t) ==
  /\ pc[t] = "received"
  /\ req[t].op = "risk"
  /\ resp' = [resp EXCEPT ![t] =
                RiskMetricsResponse(protocols, GetSelector(req[t].args, "Balanced"))]
  /\ pc' = [pc EXCEPT ![t] = "done"]
  /\ UNCHANGED <<protocols, req, loc, fed, ticket, served>>

Next ==
  \E t \in Threads :
    \/ ReceiveOptimize(t)
    \/ ReceiveProtocols(t)
    \/ ReceiveRiskMetrics(t)
    \/ ReceiveRebalance(t)
    \/ ReceiveRebalanceFedBack(t)
    \/ OptimizeBegin(t)
    \/ OptimizeFinish(t)
    \/ RebalanceBegin(t)
    \/ RebalanceFinish(t)
    \/ GetProtocols(t)
    \/ GetRiskMetrics(t)

Spec == Init /\ [][Next]_vars

-----------------------------------------------------------------------------
(* Vocabulary of the properties *)

Done(t) == pc[t] = "done"

\* The request went through optimize_portfolio and its handler answered 200.
Answered(t, op) == Done(t) /\ req[t].op = op /\ resp[t].status = 200

\* The selector string the handler works with.
Selector(t) ==
  LET sel == IF req[t].op = "rebalance" THEN req[t].body.vault_type ELSE req[t].args
  IN  IF sel.has THEN sel.type ELSE "Balanced"

\* The allocation a portfolio response carries.
Returned(t) ==
  IF req[t].op = "rebalance" THEN resp[t].new_allocations ELSE resp[t].allocations

\* The caller's prior weight for the i-th protocol: by position, 0 if missing.
PriorAt(t, i) ==
  LET cur == req[t].body.current_allocations
  IN  IF req[t].body.ca = "list" /\ i <= Len(cur) /\ cur[i].vkind = "num"
      THEN cur[i].value ELSE 0

Diff(t, i) == resp[t].new_allocations[i].value - PriorAt(t, i)

TradesFor(t, name) ==
  {k \in 1..Len(resp[t].trades_needed) : resp[t].trades_needed[k].protocol = name}

\* The profile table of the specification: cap in hundredths, score in tenths.
ProfileCap(s) ==
  CASE s = "Conservative" -> 40 [] s = "Balanced" -> 60 [] OTHER -> 80

ProfileScore(s) ==
  CASE s = "Conservative" -> 32 [] s = "Balanced" -> 58 [] OTHER -> 81

-----------------------------------------------------------------------------
\* C1: for every profile and every solver outcome, the returned weights sum
\* to 1.0 and each lies in [0.05, max_single_allocation] of the profile.
C1_WeightsFeasible ==
  \A t \in Threads :
    (Answered(t, "optimize") \/ Answered(t, "rebalance")) =>
      LET a == Returned(t)
      IN  /\ SumSeq([i \in 1..Len(a) |-> a[i].value]) = 10000
          /\ \A i \in 1..Len(a) :
               /\ a[i].value >= 500
               /\ a[i].value <= ProfileCap(Selector(t)) * 100

\* C2: when the solver fails the request is still answered, every protocol
\* gets exactly 1/n and the Sharpe ratio is the default 1.5; when it succeeds
\* the Sharpe ratio is the objective's value at the returned weights.
C2_FallbackAndSharpe ==
  \A t \in Threads :
    (Done(t) /\ loc[t].stage = "solved") =>
      LET result == loc[t].result
          n == Len(protocols)
      IN  /\ (req[t].op = "optimize") => resp[t].status = 200
          /\ (~result.success /\ resp[t].status = 200) =>
               /\ Len(Returned(t)) = n
               /\ \A i \in 1..n : Returned(t)[i].value * n = 10000
          /\ (~result.success /\ req[t].op = "optimize") => resp[t].sharpe_ratio = 150
          /\ (result.success /\ req[t].op = "optimize") =>
               /\ resp[t].sharpe_ratio =
                    calculate_sharpe_ratio(result.x, loc[t].current_returns,
                                           loc[t].cov_matrix, 30)
               /\ \A i \in 1..n : resp[t].allocations[i].value = result.x[i] * 100

C2_Witness ==
  \E t, u \in Threads :
    /\ Answered(t, "optimize") /\ ~loc[t].result.success
    /\ resp[t].sharpe_ratio = 150
    /\ Answered(u, "optimize") /\ loc[u].result.success
    /\ resp[u].sharpe_ratio # 150

\* C3: a difference of exactly one percentage point produces no trade, a
\* larger one produces exactly one trade for that protocol, and every trade's
\* amount_percent exceeds 1.
C3_StrictThreshold ==
  \A t \in Threads :
    Answered(t, "rebalance") =>
      /\ \A i \in 1..Len(resp[t].new_allocations) :
           LET mine == TradesFor(t, resp[t].new_allocations[i].name)
           IN  /\ Abs(Diff(t, i)) = 100 => mine = {}
               /\ Abs(Diff(t, i)) > 100 => Cardinality(mine) = 1
      /\ \A k \in 1..Len(resp[t].trades_needed) :
           resp[t].trades_needed[k].amount_percent > 100

C3_Witness ==
  \E t \in Threads :
    /\ Answered(t, "rebalance")
    /\ \E i, j \in 1..Len(resp[t].new_allocations) :
         /\ Abs(Diff(t, i)) = 100
         /\ TradesFor(t, resp[t].new_allocations[i].name) = {}
         /\ Abs(Diff(t, j)) = 101
         /\ TradesFor(t, resp[t].new_allocations[j].name) # {}

\* The prior list gives, position by position, the target of this very call.
OnTarget(t) ==
  LET cur == req[t].body.current_allocations
  IN  /\ req[t].body.ca = "list"
      /\ \A i \in 1..Len(resp[t].new_allocations) :
           /\ i <= Len(cur)
           /\ cur[i].kind = "dict" /\ cur[i].vkind = "num"
           /\ cur[i].value = resp[t].new_allocations[i].value

\* C4 as stated: a rebalance whose current_allocations are the
\* new_allocations of an earlier rebalance (same profile) needs no trades.
C4_FedBackNoTrades ==
  \A t \in Threads :
    (Answered(t, "rebalance") /\ fed[t]) => resp[t].trades_needed = <<>>

\* C4 amended: a rebalance whose prior weights equal the target computed in
\* that same call needs no trades; one fed with an earlier call's
\* new_allocations needs no trades exactly when its own fresh target is
\* within one percentage point of them for every protocol.
C4_OnTargetNoTrades ==
  \A t \in Threads :
    Answered(t, "rebalance") =>
      /\ OnTarget(t) => resp[t].trades_needed = <<>>
      /\ fed[t] =>
           (resp[t].trades_needed = <<>>
              <=> \A i \in 1..Len(resp[t].new_allocations) : Abs(Diff(t, i)) <= 100)

C4_Witness ==
  \E t, u \in Threads :
    /\ Answered(t, "rebalance") /\ fed[t] /\ OnTarget(t)
    /\ resp[t].trades_needed = <<>>
    /\ Answered(u, "rebalance") /\ ~fed[u] /\ OnTarget(u)
    /\ resp[u].trades_needed = <<>>

\* Scenario 2: the single prior entry {USDe Staking: 90}, Conservative
\* profile, and a target of 55 % for USDe Staking (the last protocol).
Scenario2(t) ==
  /\ Answered(t, "rebalance")
  /\ Selector(t) = "Conservative"
  /\ req[t].body.ca = "list"
  /\ req[t].body.current_allocations = << Entry("USDe Staking", 9000) >>
  /\ resp[t].new_allocations[4].name = "USDe Staking"
  /\ resp[t].new_allocations[4].value = 5500

C6_ProfileTable ==
  \A t \in Threads :
    /\ loc[t].stage \in {"market", "solved"} =>
         /\ loc[t].bounds = <<5, ProfileCap(Selector(t))>>
         /\ loc[t].vault_type = Selector(t)
    /\ (Done(t) /\ req[t].op = "risk") =>
         /\ resp[t].status = 200
         /\ resp[t].risk_score = ProfileScore(Selector(t))
    /\ (Done(t) /\ req[t].op = "optimize") => resp[t].status = 200

C6_Witness ==
  \E t, u \in Threads :
    /\ Answered(t, "risk") /\ req[t].args = [has |-> TRUE, type |-> "Degen"]
    /\ resp[t].risk_score = 81
    /\ Answered(u, "optimize") /\ req[u].args = [has |-> TRUE, type |-> "Degen"]
    /\ loc[u].bounds = <<5, 80>>

\* A rebalance payload the handler cannot process: no JSON object, a
\* current_allocations that is no list, or, among the entries the loop
\* reaches, one that is no object or whose 'value' is no number.
Malformed(body) ==
  \/ body.json # "object"
  \/ body.ca = "other"
  \/ /\ body.ca = "list"
     /\ \E i \in 1..Len(body.current_allocations) :
          /\ i <= Len(Registry)
          /\ \/ body.current_allocations[i].kind # "dict"
             \/ body.current_allocations[i].vkind = "other"

SameDraws(t, u) ==
  /\ loc[t].stage = loc[u].stage
  /\ loc[t].stage = "solved" =>
       /\ loc[t].noise = loc[u].noise
       /\ loc[t].result.success = loc[u].result.success
       /\ loc[t].result.x = loc[u].result.x

\* A step changes the state of one request thread only, and not the registry.
StepLocal ==
  /\ protocols' = protocols
  /\ \E t \in Threads :
       \A u \in Threads \ {t} :
         /\ pc'[u] = pc[u] /\ req'[u] = req[u]
         /\ loc'[u] = loc[u] /\ resp'[u] = resp[u]

TestVectors == [1..4 -> {-1, 0, 1}]
BoundedVectors == [1..4 -> {5, 80}]

\* C9: the covariance matrix has r[i]^2 on the diagonal and 0.5 r[i] r[j]
\* off it, is symmetric and positive semi-definite for all risk factors in
\* (0, 1], and the variance of every weight vector inside the bounds is
\* strictly positive.
C9_Covariance ==
  \A t \in Threads :
    loc[t].stage \in {"market", "solved"} =>
      LET c == loc[t].cov_matrix
          n == Len(protocols)
      IN  /\ \A i, j \in 1..n :
               /\ c[i][j] = c[j][i]
               /\ i = j => c[i][j] = 2 * protocols[i].risk_factor * protocols[i].risk_factor
               /\ i # j => c[i][j] = protocols[i].risk_factor * protocols[j].risk_factor
          /\ \A x \in TestVectors : QuadForm(x, c) >= 0
          /\ \A w \in BoundedVectors : QuadForm(w, c) > 0

C9_Witness ==
  \E t \in Threads :
    /\ loc[t].stage = "solved"
    /\ protocols[1].risk_factor = 100
    /\ protocols[2].risk_factor = 1
    /\ loc[t].cov_matrix[1][2] = 100

\* C10: prior and target are matched by position; a missing entry or value
\* counts as 0; per protocol there is at most one trade, trades follow the
\* registry order, the action is 'increase' exactly when target minus prior
\* is positive, and amount_percent is the absolute difference.
C10_PositionalDiff ==
  \A t \in Threads :
    Answered(t, "rebalance") =>
      LET target == resp[t].new_allocations
          trades == resp[t].trades_needed
          Pos(k) == CHOOSE i \in 1..Len(target) : target[i].name = trades[k].protocol
      IN  /\ \A k \in 1..Len(trades) :
               /\ \E i \in 1..Len(target) : target[i].name = trades[k].protocol
               /\ trades[k].action = (IF Diff(t, Pos(k)) > 0 THEN "increase" ELSE "decrease")
               /\ trades[k].amount_percent = Abs(Diff(t, Pos(k)))
          /\ \A k, m \in 1..Len(trades) : k < m => Pos(k) < Pos(m)
          /\ \A i \in 1..Len(target) :
               (\E k \in 1..Len(trades) : trades[k].protocol = target[i].name)
                 <=> Abs(Diff(t, i)) > 100

C10_Witness ==
  \E t \in Threads :
    /\ Answered(t, "rebalance")
    /\ Len(req[t].body.current_allocations) > Len(resp[t].new_allocations)
    /\ req[t].body.current_allocations[1].vkind = "absent"
    /\ req[t].body.current_allocations[2].name # resp[t].new_allocations[2].name
    /\ \E k, m \in 1..Len(resp[t].trades_needed) :
         /\ resp[t].trades_needed[k].action = "increase"
         /\ resp[t].trades_needed[m].action = "decrease"

-----------------------------------------------------------------------------
(* The market model over registries with other risk factors *)

RiskGrid == {1, 35, 100}

Registries ==
  {Registry} \cup
  { [i \in 1..Len(Registry) |-> [Registry[i] EXCEPT !.risk_factor = rf[i]]] :
      rf \in [1..Len(Registry) -> RiskGrid] }

InitCov ==
  /\ protocols \in Registries
  /\ pc = [t \in Threads |-> "idle"]
  /\ req = [t \in Threads |-> NoReq]
  /\ loc = [t \in Threads |-> NoLoc]
  /\ resp = [t \in Threads |-> NoResp]
  /\ fed = [t \in Threads |-> FALSE]
  /\ ticket = [t \in Threads |-> 0]
  /\ served = 0

\* Requests to /api/optimize, served one at a time.
NextCov ==
  \E t \in {"t1"} :
    \/ ReceiveOptimize(t)
    \/ OptimizeBegin(t)
    \/ OptimizeFinish(t)

SpecCov == InitCov /\ [][NextCov]_vars

====
